---- MODULE Spec2Model ----
(***************************************************************************)
(* A model of pyramid/static.py: FileResponse (conditional GET, single     *)
(* byte-range parsing, response assembly), the _file_iter generator that   *)
(* streams the body, and secure_path with its lru_cache.                   *)
(*                                                                         *)
(* Strings are sequences of one-character strings, so that splitting,      *)
(* int() and '%d' formatting are computed and not assumed.  A file of      *)
(* size S holds the bytes 0 .. S-1: a byte is named by its offset.         *)
(***************************************************************************)
EXTENDS Integers, Sequences, FiniteSets, TLC

\* ------------------------------------------------------------------ bounds
MaxTail == 3      \* length of the free part of a Range header
MaxSize == 4      \* file sizes 0 .. MaxSize
MaxChunk == 2     \* chunk sizes 1 .. MaxChunk
MaxTime == 1      \* the file's mtime; If-Modified-Since is in 0 .. MaxTime + 1
MaxNum == 22      \* numbers the claims about 'bytes=A-B' / 'bytes=-N' range over
MaxSegs == 2      \* segments in a path tuple
MaxSegLen == 2    \* characters in a path segment
CacheCapacity == 2 \* capacity of the lru_cache (1000 in the source, scaled down)

\* ----------------------------------------------------------------- strings
None == <<"None">>           \* an absent header / a rejected path: no string equals it
NoInt == <<>>                \* an absent number; a present one is <<n>>
Some(n) == <<n>>

Digits == {"0", "1", "2", "3", "4", "5", "6", "7", "8", "9"}
DigitVal == ("0" :> 0) @@ ("1" :> 1) @@ ("2" :> 2) @@ ("3" :> 3) @@ ("4" :> 4) @@
            ("5" :> 5) @@ ("6" :> 6) @@ ("7" :> 7) @@ ("8" :> 8) @@ ("9" :> 9)
DigitChar == <<"0", "1", "2", "3", "4", "5", "6", "7", "8", "9">>

bytes == <<"b", "y", "t", "e", "s">>
items == <<"i", "t", "e", "m", "s">>

\* c in s
Contains(s, c) == \E i \in DOMAIN s : s[i] = c

\* s.startswith(c) for a one-character c
StartsWith(s, c) == Len(s) > 0 /\ s[1] = c

\* index of the first c in s (s contains c)
Find(s, c) == CHOOSE i \in DOMAIN s : s[i] = c /\ \A j \in 1..(i - 1) : s[j] # c

\* s.split(c, 1): one piece when c is absent, otherwise two
SplitOnce(s, c) ==
    IF Contains(s, c)
    THEN <<SubSeq(s, 1, Find(s, c) - 1), SubSeq(s, Find(s, c) + 1, Len(s))>>
    ELSE <<s>>

\* s.split(c)
RECURSIVE Split(_, _)
Split(s, c) ==
    IF Contains(s, c)
    THEN <<SubSeq(s, 1, Find(s, c) - 1)>> \o Split(SubSeq(s, Find(s, c) + 1, Len(s)), c)
    ELSE <<s>>

\* value of a non-empty digit string
RECURSIVE DigitsVal(_)
DigitsVal(s) ==
    IF Len(s) = 0 THEN 0
    ELSE 10 * DigitsVal(SubSeq(s, 1, Len(s) - 1)) + DigitVal[s[Len(s)]]

AllDigits(s) == Len(s) > 0 /\ \A i \in DOMAIN s : s[i] \in Digits

\* int(s): an optional sign and at least one digit, otherwise ValueError
\* (the alphabet of the model holds no white space).
ParseInt(s) ==
    IF AllDigits(s) THEN [ok |-> TRUE, val |-> DigitsVal(s)]
    ELSE IF Len(s) > 1 /\ s[1] \in {"-", "+"} /\ AllDigits(Tail(s))
         THEN [ok |-> TRUE,
               val |-> IF s[1] = "-" THEN 0 - DigitsVal(Tail(s)) ELSE DigitsVal(Tail(s))]
         ELSE [ok |-> FALSE, val |-> 0]

\* '%d' % n
RECURSIVE FormatNat(_)
FormatNat(n) ==
    IF n < 10 THEN <<DigitChar[n + 1]>>
    ELSE FormatNat(n \div 10) \o <<DigitChar[(n % 10) + 1]>>

FormatInt(n) == IF n < 0 THEN <<"-">> \o FormatNat(0 - n) ELSE FormatNat(n)

\* ------------------------------------------------- FileResponse._get_range
NoRange == [kind |-> "None", start |-> 0, end |-> 0]
RaiseValueError == [kind |-> "ValueError", start |-> 0, end |-> 0]
RangeOf(start, end) == [kind |-> "range", start |-> start, end |-> end]

\* the suffix form: range_s starts with '-'
SuffixRange_offset(range_s, content_length) ==
    LET n == ParseInt(Tail(range_s))
    IN  IF n.ok THEN RangeOf(n.val, content_length)
        ELSE RaiseValueError
SuffixRange(range_s, content_length) ==
    LET n == ParseInt(Tail(range_s))
    IN  IF n.ok THEN RangeOf(content_length - n.val, content_length)
        ELSE RaiseValueError

\* start, end = map(int, range_s.split('-')); return start, end + 1
BoundedRange_inclusive(range_s) ==
    LET parts == Split(range_s, "-")
    IN  IF \E i \in DOMAIN parts : ~ParseInt(parts[i]).ok THEN RaiseValueError
        ELSE IF Len(parts) # 2 THEN RaiseValueError
        ELSE RangeOf(ParseInt(parts[1]).val, ParseInt(parts[2]).val)
BoundedRange(range_s) ==
    LET parts == Split(range_s, "-")
    IN  IF \E i \in DOMAIN parts : ~ParseInt(parts[i]).ok THEN RaiseValueError
        ELSE IF Len(parts) # 2 THEN RaiseValueError
        ELSE RangeOf(ParseInt(parts[1]).val, ParseInt(parts[2]).val + 1)

\* ',' in range_header
IsMultiRange_never(range_header) == FALSE
IsMultiRange(range_header) == Contains(range_header, ",")

\* unit != 'bytes'
UnsupportedUnit(unit) == unit # bytes

GetRange(range_header, content_length) ==
    IF range_header = None THEN NoRange
    ELSE IF IsMultiRange(range_header) THEN NoRange
    ELSE LET pieces == SplitOnce(range_header, "=")
         IN  IF Len(pieces) # 2 THEN RaiseValueError
             ELSE IF UnsupportedUnit(pieces[1]) THEN NoRange
             ELSE IF StartsWith(pieces[2], "-")
                  THEN SuffixRange(pieces[2], content_length)
                  ELSE BoundedRange(pieces[2])

\* -------------------------------------------------- FileResponse.__init__
NoIter == [made |-> FALSE, chunksize |-> 0, content_range |-> NoRange]
FileIter(chunksize, content_range) ==
    [made |-> TRUE, chunksize |-> chunksize, content_range |-> content_range]

\* 'bytes %d-%d/%d' % (start, end - 1, content_length)
ContentRange(start, end, content_length) ==
    bytes \o <<" ">> \o FormatInt(start) \o <<"-">> \o FormatInt(end - 1)
          \o <<"/">> \o FormatInt(content_length)

\* Response.__init__ followed by the first two assignments: status 200, nothing
\* else set by this class yet.  range_parsed records whether _get_range ran.
BaseResponse(req) ==
    [outcome |-> "response", status |-> 200, last_modified |-> req.mtime,
     content_range |-> None, content_length |-> NoInt, date |-> NoInt,
     expires |-> NoInt, app_iter |-> NoIter, range_parsed |-> FALSE,
     request_range |-> NoRange]

\* If-Modified-Since is present and the file is not newer
NotModified_strict(req) ==
    /\ req.if_modified_since # NoInt
    /\ req.mtime < req.if_modified_since[1]
NotModified(req) ==
    /\ req.if_modified_since # NoInt
    /\ req.mtime <= req.if_modified_since[1]

\* lines 61-67: date, app_iter, content_length, expires
Assemble(r, req, request_range, content_length, now) ==
    [r EXCEPT !.date = Some(now),
              !.app_iter = FileIter(req.chunksize, request_range),
              !.content_length = Some(content_length),
              !.expires = IF req.expires # NoInt THEN Some(now + req.expires[1])
                          ELSE NoInt]

\* start >= content_length
Unsatisfiable(request_range, content_length) ==
    request_range.start >= content_length

FileResponse(req, now) ==
    LET base == BaseResponse(req)
        content_length == req.size
        request_range == GetRange(req.range_header, content_length)
        parsed == [base EXCEPT !.range_parsed = TRUE, !.request_range = request_range]
    IN  IF NotModified(req) THEN [base EXCEPT !.status = 304]
        ELSE IF request_range.kind = "ValueError"
             THEN [parsed EXCEPT !.outcome = "ValueError", !.status = 0]
        ELSE IF request_range.kind = "range"
             THEN IF Unsatisfiable(request_range, content_length)
                  THEN [parsed EXCEPT !.status = 416]
                  ELSE Assemble(
                         [parsed EXCEPT
                            !.status = 206,
                            !.content_range = ContentRange(request_range.start,
                                                           request_range.end,
                                                           content_length)],
                         req, request_range,
                         request_range.end - request_range.start, now)
        ELSE Assemble(parsed, req, request_range, content_length, now)

\* ------------------------------------------------------------- _file_iter
\* gen: "none" (no generator), "created" (not started), "suspended" (at the
\* yield), "finished" (StopIteration), "raised" (an exception left the
\* generator), "closed" (close() was called on it).
NoGenerator ==
    [gen |-> "none", file |-> "unopened", opens |-> 0, closes |-> 0, pos |-> 0,
     bytes_left |-> 0, chunks |-> <<>>]
NewGenerator == [NoGenerator EXCEPT !.gen = "created"]

Min(a, b) == IF a <= b THEN a ELSE b

\* the bytes file.read(n) returns at position pos: everything up to the end
\* of the file for a negative n, at most n bytes otherwise
ReadLen_one(n, pos, size) == IF pos >= size THEN 0 ELSE 1
ReadLen(n, pos, size) ==
    IF pos >= size THEN 0
    ELSE IF n < 0 THEN size - pos
    ELSE Min(n, size - pos)

Chunk(pos, len) == [i \in 1..len |-> pos + i - 1]

\* the finally clause: file.close()
Finally(it, gen) ==
    [it EXCEPT !.gen = gen, !.file = "closed", !.closes = it.closes + 1]

\* get_bytes() inside the try, then either the yield or the end of the loop.
\* fault = "read": file.read raises.  runtime = "py3": read(n) with n < -1
\* raises ValueError; under "py2" every negative n reads to the end of file.
GetBytes(it, iter, size, fault, runtime) ==
    LET ranged == iter.content_range.kind = "range"
        n == IF ranged THEN Min(it.bytes_left, iter.chunksize) ELSE iter.chunksize
        len == ReadLen(n, it.pos, size)
    IN  IF fault = "read" \/ (n < -1 /\ runtime = "py3")
        THEN Finally(it, "raised")
        ELSE IF len > 0
             THEN [it EXCEPT !.gen = "suspended",
                             !.pos = it.pos + len,
                             !.bytes_left = IF ranged THEN it.bytes_left - len
                                            ELSE it.bytes_left,
                             !.chunks = Append(it.chunks, Chunk(it.pos, len))]
             ELSE Finally(it, "finished")

\* the first next(): open, seek for a range (outside the try), first read.
\* A negative offset makes seek raise; fault = "seek" is any other I/O error.
StartIter(it, iter, size, fault, runtime) ==
    LET opened == [it EXCEPT !.file = "open", !.opens = it.opens + 1]
        r == iter.content_range
    IN  IF r.kind = "range"
        THEN IF fault = "seek" \/ r.start < 0
             THEN [opened EXCEPT !.gen = "raised"]
             ELSE GetBytes([opened EXCEPT !.pos = r.start,
                                          !.bytes_left = r.end - r.start],
                           iter, size, fault, runtime)
        ELSE GetBytes(opened, iter, size, fault, runtime)

\* generator.close(): nothing ran yet, or GeneratorExit at the yield
CloseIter(it) ==
    IF it.gen = "suspended" THEN Finally(it, "closed")
    ELSE [it EXCEPT !.gen = "closed"]

\* ------------------------------------------------------------ secure_path
\* pyramid.traversal.quote_path_segment: percent-encoding of the characters
\* that are unsafe in a path segment ('/' is the unsafe one of the alphabet)
QuoteChar(c) == IF c = "/" THEN <<"%", "2", "F">> ELSE <<c>>

RECURSIVE QuoteSegment(_)
QuoteSegment(x) ==
    IF Len(x) = 0 THEN <<>> ELSE QuoteChar(Head(x)) \o QuoteSegment(Tail(x))

\* '/'.join(strings)
RECURSIVE JoinSlash(_)
JoinSlash(strings) ==
    IF Len(strings) = 0 THEN <<>>
    ELSE IF Len(strings) = 1 THEN strings[1]
    ELSE strings[1] \o <<"/">> \o JoinSlash(Tail(strings))

\* '' in path_tuple
HasEmptyItem(path_tuple) == \E i \in DOMAIN path_tuple : path_tuple[i] = <<>>

\* the loop over the items and over val in ['.', '/']
HasUnsafeStart_dot(path_tuple) ==
    \E i \in DOMAIN path_tuple : StartsWith(path_tuple[i], ".")
HasUnsafeStart(path_tuple) ==
    \E i \in DOMAIN path_tuple :
        \E val \in {".", "/"} : StartsWith(path_tuple[i], val)

\* the body of secure_path, run on a cache miss
SecurePath(path_tuple) ==
    IF HasEmptyItem(path_tuple) THEN None
    ELSE IF HasUnsafeStart(path_tuple) THEN None
    ELSE JoinSlash([i \in DOMAIN path_tuple |-> QuoteSegment(path_tuple[i])])

\* @lru_cache: the cache after val was stored under key; when the cache is
\* full the entry `victim` makes room (which one is the cache's policy)
CachePut(cache, key, val, victim) ==
    LET kept == IF Cardinality(DOMAIN cache) >= CacheCapacity
                THEN DOMAIN cache \ {victim} ELSE DOMAIN cache
    IN  [k \in kept \cup {key} |-> IF k = key THEN val ELSE cache[k]]

\* the entries that may be evicted when key is stored: any one of a full cache
Victims(cache, key) ==
    IF Cardinality(DOMAIN cache) >= CacheCapacity THEN DOMAIN cache ELSE {key}

\* @lru_cache: the value returned for a key that is in the cache
CacheGet(cache, key) == cache[key]

\* ------------------------------------------------------------------ state
VARIABLES
    request,    \* the inputs of FileResponse: file metadata and request headers
    phase,      \* "request" before FileResponse ran, "response" after
    resp,       \* what FileResponse built
    it,         \* the body generator and its file handle
    subject,    \* the path tuple whose resolution is followed
    cache,      \* the lru_cache of secure_path: path tuple -> result
    call        \* the last call of secure_path: its argument, result, hit or miss

vars == <<request, phase, resp, it, subject, cache, call>>
fileVars == <<request, phase, resp, it>>
pathVars == <<subject, cache, call>>

TailChars == {"-", ",", "a", "0", "1", "2"}
Tails == UNION {[1..n -> TailChars] : n \in 0..MaxTail}
Prefixes == {<<>>, bytes, bytes \o <<"=">>, items \o <<"=">>}
RangeHeaders == {None} \cup {p \o t : p \in Prefixes, t \in Tails}
\* timestamps are only compared: the file's mtime is MaxTime and the request's
\* If-Modified-Since is absent, earlier, equal or later
Times == 0..(MaxTime + 1)
Faults == {"none", "seek", "read"}
Runtimes == {"py2", "py3"}

Requests ==
    [mtime : {MaxTime},
     if_modified_since : {NoInt} \cup {Some(t) : t \in Times},
     range_header : RangeHeaders,
     size : 0..MaxSize,
     chunksize : 1..MaxChunk,
     expires : {NoInt, Some(1)}]

SegChars == {"a", ".", "/"}
Segments == UNION {[1..n -> SegChars] : n \in 0..MaxSegLen}
PathTuples == UNION {[1..n -> Segments] : n \in 0..MaxSegs}
\* paths requested between two requests of the subject
OtherPaths == {<<<<"a">>>>, <<<<"a">>, <<"a">>>>, <<<<".">>>>}

Unbuilt == [BaseResponse([mtime |-> 0]) EXCEPT !.outcome = "pending", !.status = 0]
NoCall == [made |-> FALSE, arg |-> <<>>, result |-> None, hit |-> FALSE]
EmptyCache == [k \in {} |-> None]

InitFile ==
    /\ phase = "request"
    /\ resp = Unbuilt
    /\ it = NoGenerator

InitPath ==
    /\ cache = EmptyCache
    /\ call = NoCall

Init ==
    /\ request \in Requests
    /\ InitFile
    /\ subject = <<>>
    /\ InitPath

\* static_view.__call__ line 194: build the response; utcnow() is later than
\* every mtime
Respond ==
    /\ phase = "request"
    /\ phase' = "response"
    /\ resp' = FileResponse(request, MaxTime + 2)
    /\ it' = IF resp'.app_iter.made THEN NewGenerator ELSE NoGenerator
    /\ UNCHANGED <<request, pathVars>>

\* the consumer calls next() on app_iter
IterNext ==
    /\ phase = "response"
    /\ it.gen \in {"created", "suspended"}
    /\ \E fault \in Faults, runtime \in Runtimes :
         it' = IF it.gen = "created"
               THEN StartIter(it, resp.app_iter, request.size, fault, runtime)
               ELSE GetBytes(it, resp.app_iter, request.size, fault, runtime)
    /\ UNCHANGED <<request, phase, resp, pathVars>>

\* the consumer stops pulling and closes app_iter
IterClose ==
    /\ phase = "response"
    /\ it.gen \in {"created", "suspended"}
    /\ it' = CloseIter(it)
    /\ UNCHANGED <<request, phase, resp, pathVars>>

Next == Respond \/ IterNext \/ IterClose

Spec == Init /\ [][Next]_vars

\* ---------------------------------------------- secure_path behind its cache
InitSecurePath ==
    /\ request = [mtime |-> MaxTime, if_modified_since |-> NoInt,
                   range_header |-> None, size |-> 0, chunksize |-> 1,
                   expires |-> NoInt]
    /\ InitFile
    /\ subject \in PathTuples
    /\ InitPath

\* secure_path(path_tuple) answered from the cache
CallHit ==
    /\ \E path_tuple \in {subject} \cup OtherPaths :
         /\ path_tuple \in DOMAIN cache
         /\ call' = [made |-> TRUE, arg |-> path_tuple,
                     result |-> CacheGet(cache, path_tuple), hit |-> TRUE]
    /\ UNCHANGED <<cache, subject, fileVars>>

\* secure_path(path_tuple) computed and stored
CallMiss ==
    /\ \E path_tuple \in {subject} \cup OtherPaths :
         /\ path_tuple \notin DOMAIN cache
         /\ \E victim \in Victims(cache, path_tuple) :
              cache' = CachePut(cache, path_tuple, SecurePath(path_tuple), victim)
         /\ call' = [made |-> TRUE, arg |-> path_tuple,
                     result |-> SecurePath(path_tuple), hit |-> FALSE]
    /\ UNCHANGED <<subject, fileVars>>

NextSecurePath == CallHit \/ CallMiss

SpecSecurePath == InitSecurePath /\ [][NextSecurePath]_vars

\* ================================================================ properties
Built == phase = "response"

\* the request's If-Modified-Since timestamp M is present and mtime T <= M
Satisfied304 ==
    /\ request.if_modified_since # NoInt
    /\ request.mtime <= request.if_modified_since[1]

BytesEq == bytes \o <<"=">>
HasBytesEq(h) == Len(h) >= 6 /\ SubSeq(h, 1, 6) = BytesEq
RangeSpec(h) == SubSeq(h, 7, Len(h))

\* the decimal numeral of n, 0 <= n < 100
Numeral(n) ==
    IF n < 10 THEN <<DigitChar[n + 1]>>
    ELSE <<DigitChar[(n \div 10) + 1], DigitChar[(n % 10) + 1]>>

\* a numeral may be written with a leading zero
Zeros == {<<>>, <<"0">>}

\* the body delivered so far, as one sequence of bytes
RECURSIVE Flatten(_)
Flatten(chunks) ==
    IF Len(chunks) = 0 THEN <<>> ELSE Head(chunks) \o Flatten(Tail(chunks))

\* the bytes [from, to) of the file
FileBytes(from, to) == [i \in 1..(to - from) |-> from + i - 1]

NothingSent ==
    /\ ~resp.app_iter.made
    /\ it = NoGenerator

\* C1: when If-Modified-Since M is present and mtime T <= M the response is a
\* 304 with no body, whatever the Range header: _get_range never runs, no
\* Content-Range, Content-Length or Expires is set, the file is never opened;
\* otherwise the response is never a 304.
C1_NotModified ==
    Built =>
        /\ Satisfied304 =>
              /\ resp.outcome = "response"
              /\ resp.status = 304
              /\ ~resp.range_parsed
              /\ resp.content_range = None
              /\ resp.content_length = NoInt
              /\ resp.expires = NoInt
              /\ NothingSent
        /\ ~Satisfied304 => resp.status # 304

C1_Witness ==
    /\ Built
    /\ resp.status = 304
    /\ request.range_header = BytesEq \o <<"a", "-">>
    /\ request.if_modified_since = Some(request.mtime)
    /\ request.expires # NoInt

\* a well-formed single range: 'bytes=' digits '-' digits, or 'bytes=-' digits
WellFormedRange(h) ==
    /\ HasBytesEq(h)
    /\ LET range_s == RangeSpec(h)
       IN  \E i \in DOMAIN range_s :
              /\ range_s[i] = "-"
              /\ AllDigits(SubSeq(range_s, i + 1, Len(range_s)))
              /\ i = 1 \/ AllDigits(SubSeq(range_s, 1, i - 1))

\* C2: a Range header that is not a well-formed single range raises nothing
\* and gives the full 200 response with Content-Length = file size.
C2_MalformedIsFullResponse ==
    (Built /\ ~Satisfied304 /\ request.range_header # None
       /\ ~WellFormedRange(request.range_header)) =>
        /\ resp.outcome = "response"
        /\ resp.status = 200
        /\ resp.content_length = Some(request.size)

\* C3: once the body of a 200 or 206 response is exhausted, every chunk held
\* at most chunksize bytes and the bytes sent add up to Content-Length.
C3_BodyMatchesContentLength ==
    (Built /\ resp.status \in {200, 206} /\ it.gen = "finished") =>
        /\ \A i \in DOMAIN it.chunks : Len(it.chunks[i]) <= request.chunksize
        /\ Len(Flatten(it.chunks)) = resp.content_length[1]

\* C4: when the stream has ended (exhausted, abandoned, or an error in seek
\* or read) and the file was opened, the handle is closed, exactly once.
C4_ClosedOnEveryExit ==
    (it.gen \in {"finished", "raised", "closed"} /\ it.opens > 0) =>
        /\ it.file = "closed"
        /\ it.closes = 1

\* 'bytes=' digits '-' digits
IsBoundedForm(h) ==
    /\ HasBytesEq(h)
    /\ \E i \in DOMAIN RangeSpec(h) :
          /\ RangeSpec(h)[i] = "-"
          /\ AllDigits(SubSeq(RangeSpec(h), 1, i - 1))
          /\ AllDigits(SubSeq(RangeSpec(h), i + 1, Len(RangeSpec(h))))

\* 'bytes=-' digits
IsSuffixForm(h) ==
    /\ HasBytesEq(h)
    /\ StartsWith(RangeSpec(h), "-")
    /\ AllDigits(Tail(RangeSpec(h)))

\* what a 206 for the range [start, end) of the file carries
Partial(start, end) ==
    /\ resp.outcome = "response"
    /\ resp.status = 206
    /\ resp.app_iter.made
    /\ resp.app_iter.content_range = RangeOf(start, end)
    /\ it.gen # "none"

\* C5: without a satisfied If-Modified-Since, 'bytes=A-B' with 0 <= A <= B and
\* A < S (B below, at or beyond S-1) gives 206, Content-Range 'bytes A-B/S',
\* Content-Length B - A + 1, and a body that starts at file offset A.
C5_BoundedRange ==
    (Built /\ ~Satisfied304 /\ IsBoundedForm(request.range_header)) =>
        \A A \in 0..(request.size - 1) : \A B \in A..MaxNum : \A za, zb \in Zeros :
            request.range_header =
                BytesEq \o za \o Numeral(A) \o <<"-">> \o zb \o Numeral(B) =>
                /\ Partial(A, B + 1)
                /\ resp.content_range =
                       bytes \o <<" ">> \o Numeral(A) \o <<"-">> \o Numeral(B)
                             \o <<"/">> \o Numeral(request.size)
                /\ resp.content_length = Some(B - A + 1)
                /\ it.gen \in {"suspended", "finished"} => Len(it.chunks) > 0
                /\ Len(it.chunks) > 0 => it.chunks[1][1] = A

\* 'bytes=1-2' on a file of 2 bytes: B = S, one byte delivered from offset 1
C5_Witness ==
    /\ Built
    /\ ~Satisfied304
    /\ request.range_header = BytesEq \o <<"1", "-", "2">>
    /\ request.size = 2
    /\ resp.status = 206
    /\ resp.content_length = Some(2)
    /\ it.chunks = <<<<1>>>>

\* C6: for S >= 1 and 'bytes=-N' with 1 <= N <= S, _get_range returns
\* (S - N, S) and the response is a 206 with Content-Range
\* 'bytes (S-N)-(S-1)/S' and Content-Length N whose body is the last N bytes.
C6_SuffixRange ==
    (Built /\ ~Satisfied304 /\ IsSuffixForm(request.range_header)) =>
        \A N \in 1..request.size : \A z \in Zeros :
            request.range_header = BytesEq \o <<"-">> \o z \o Numeral(N) =>
                /\ resp.request_range = RangeOf(request.size - N, request.size)
                /\ Partial(request.size - N, request.size)
                /\ resp.content_range =
                       bytes \o <<" ">> \o Numeral(request.size - N) \o <<"-">>
                             \o Numeral(request.size - 1) \o <<"/">>
                             \o Numeral(request.size)
                /\ resp.content_length = Some(N)
                /\ it.gen = "finished" =>
                       Flatten(it.chunks) = FileBytes(request.size - N, request.size)

\* 'bytes=-02' on a file of 3 bytes, streamed to the end in chunks of 1
C6_Witness ==
    /\ Built
    /\ request.range_header = BytesEq \o <<"-", "0", "2">>
    /\ request.size = 3
    /\ request.chunksize = 1
    /\ resp.status = 206
    /\ it.gen = "finished"
    /\ it.chunks = <<<<1>>, <<2>>>>

RangeParsed == resp.request_range.kind = "range"

Is416 ==
    /\ resp.outcome = "response"
    /\ resp.status = 416
    /\ resp.content_range = None
    /\ resp.content_length = NoInt
    /\ NothingSent
    /\ it.opens = 0

\* C7: without a satisfied If-Modified-Since, a parsed range with start >= S,
\* every range parsed on an empty file and 'bytes=-0' among them, gives 416
\* with no body, no Content-Range, no Content-Length, no iterator and no open
\* file; 416 is given in no other case.
C7_Unsatisfiable ==
    (Built /\ ~Satisfied304) =>
        /\ (RangeParsed /\ resp.request_range.start >= request.size) => Is416
        /\ (RangeParsed /\ request.size = 0) => Is416
        /\ request.range_header = BytesEq \o <<"-", "0">> => Is416
        /\ resp.status = 416 =>
              RangeParsed /\ resp.request_range.start >= request.size

\* What holds of C7: the same with 'bytes=A-B' in place of every range on an
\* empty file (a suffix range 'bytes=-N', N >= 1, has start = -N there).
StartBeyondSizeIs416 ==
    (Built /\ ~Satisfied304) =>
        /\ (RangeParsed /\ resp.request_range.start >= request.size) => Is416
        /\ (request.size = 0 /\ IsBoundedForm(request.range_header)) => Is416
        /\ request.range_header = BytesEq \o <<"-", "0">> => Is416
        /\ resp.status = 416 =>
              RangeParsed /\ resp.request_range.start >= request.size

\* a path tuple secure_path must reject
Rejected(path_tuple) ==
    \E i \in DOMAIN path_tuple :
        \/ path_tuple[i] = <<>>
        \/ path_tuple[i][1] \in {".", "/"}

\* the '/'-join of the percent-encoded segments, in order
Encoded(path_tuple) ==
    JoinSlash([i \in DOMAIN path_tuple |-> QuoteSegment(path_tuple[i])])

\* C8: secure_path returns None exactly for the tuples with an empty segment
\* or one that starts with '.' or '/', and the '/'-join of the encoded segments
\* for every other tuple, the empty one included; a call answered from the
\* cache returns what the computation returns.
C8_SecurePath ==
    /\ call.made =>
          /\ (call.result = None) <=> Rejected(call.arg)
          /\ ~Rejected(call.arg) => call.result = Encoded(call.arg)
    /\ \A k \in DOMAIN cache :
          cache[k] = IF Rejected(k) THEN None ELSE Encoded(k)

\* a two-segment path with an encoded '/', answered from the cache
C8_Witness ==
    /\ call.made
    /\ call.hit
    /\ call.arg = subject
    /\ subject = <<<<"a", "/">>, <<"a", ".">>>>
    /\ call.result = <<"a", "%", "2", "F", "/", "a", ".">>

\* C9: streaming a whole file of N bytes in chunks of C gives ceil(N/C)
\* chunks, none empty, whose concatenation is the file from offset 0, and the
\* handle is closed once the last chunk was consumed.
C9_FullStream ==
    (Built /\ resp.app_iter.made /\ resp.app_iter.content_range = NoRange
       /\ it.gen = "finished") =>
        /\ Len(it.chunks) =
               (request.size + request.chunksize - 1) \div request.chunksize
        /\ \A i \in DOMAIN it.chunks : Len(it.chunks[i]) >= 1
        /\ Flatten(it.chunks) = FileBytes(0, request.size)
        /\ it.file = "closed"
        /\ it.closes = 1

\* 4 bytes in chunks of 2: two chunks and no trailing empty one
C9_Witness ==
    /\ Built
    /\ resp.status = 200
    /\ request.size = 4
    /\ request.chunksize = 2
    /\ it.gen = "finished"
    /\ it.chunks = <<<<0, 1>>, <<2, 3>>>>
    /\ it.file = "closed"

\* the header holds a comma, or an '=' after a unit that is not 'bytes'
MultiOrOtherUnit(h) ==
    /\ h # None
    /\ \/ Contains(h, ",")
       \/ /\ Contains(h, "=")
          /\ SubSeq(h, 1, Find(h, "=") - 1) # bytes

\* C10: without a satisfied If-Modified-Since, a Range header with a comma or
\* with a unit other than 'bytes' is treated as absent: _get_range returns
\* None, the response is a 200 with Content-Length = file size and no
\* Content-Range, and the body is the whole file from offset 0.
C10_IgnoredRange ==
    (Built /\ ~Satisfied304 /\ MultiOrOtherUnit(request.range_header)) =>
        /\ resp.outcome = "response"
        /\ resp.request_range = NoRange
        /\ resp.status = 200
        /\ resp.content_length = Some(request.size)
        /\ resp.content_range = None
        /\ resp.app_iter = FileIter(request.chunksize, NoRange)
        /\ Len(it.chunks) > 0 => it.chunks[1][1] = 0
        /\ it.gen = "finished" => Flatten(it.chunks) = FileBytes(0, request.size)

\* 'bytes=0,1' on a file of 3 bytes, streamed to the end
C10_Witness ==
    /\ Built
    /\ request.range_header = BytesEq \o <<"0", ",", "1">>
    /\ request.size = 3
    /\ resp.status = 200
    /\ it.gen = "finished"
    /\ Len(Flatten(it.chunks)) = 3

====
